---- MODULE Spec2Model ----
(***************************************************************************)
(* State machine of the useFFmpeg hook (src/src/hooks/useFFmpeg.ts): the   *)
(* module-level engine singleton (loadPromise, ffmpegInstance, isReady),   *)
(* the per-hook React state (state, error, debugInfo, abortRef), the       *)
(* ensureLoaded()/doLoad() acquisition protocol and the convert()/cancel() *)
(* conversion runner; and of the queue page (src/unnamed/part_000): its     *)
(* QueueItem list, the startProcessing() pass and the mock conversion.     *)
(* JavaScript is single threaded: every action is one synchronous segment  *)
(* of a handler, from a call or a resumption after an await up to the next *)
(* await or the return.                                                    *)
(***************************************************************************)
EXTENDS Integers, Sequences, FiniteSets, TLC

\* ---------------------------------------------------------------- bounds
MaxAttempts == 2   \* doLoad() invocations
MaxCalls == 3      \* ensureLoaded() invocations
MaxJobs == 2       \* convert() invocations
MaxEvents == 2     \* engine progress events
MaxItems == 3      \* files added to the page's queue
MaxLoads == 2      \* engine initializations of the flag-guarded variant

\* Hook instances (components that called useFFmpeg()).
Hooks == {"h1", "h2"}

\* Error texts a hook can hold (useFFmpeg.ts:83, 133-145, 252).
NoError == "null"
SABMsg == "SharedArrayBuffer not available"
LoadMsg == "load failed"
ConvMsg == "conversion failed"
EngineMsg == "engine message"

VARIABLES
    hasSAB,          \* typeof SharedArrayBuffer !== 'undefined' in this host
    loadPromise,     \* 0 = null, else the id of the doLoad() promise
    ffmpegInstance,  \* 0 = null, else the id of the FFmpeg object
    isReady,
    attempts,        \* the doLoad() invocations, in order: promise i is attempts[i]
    calls,           \* the ensureLoaded() invocations, in order
    hstate, herror, hdebug, abortRef,   \* per hook instance
    nInstances,      \* FFmpeg objects constructed (new FFmpeg())
    nFetch,          \* asset fetches started (toBlobURL)
    nLoad,           \* FFmpeg.load() calls started
    jobs,            \* the convert() invocations, in order
    handlers,        \* jobs whose 'progress' listener is registered on the engine
    fs,              \* names of the entries in the engine's virtual workspace
    nEvents,         \* progress events the engine has emitted
    refused,         \* some convert() call found the engine not ready
    queue,           \* the page's QueueItem list (useState), in display order
    processingRef,   \* processingRef.current
    passes,          \* the startProcessing() invocations that have not returned
    handed,          \* ids handed to simulateConversion, in order
    nextId,          \* the next fresh QueueItem id (crypto.randomUUID)
    reentered,       \* some startProcessing() call returned at its guard
    toast,           \* the latest showToast message
    loaded, loading, \* the flag-guarded hook variant: its useState flags,
    loadError,       \* its error text, per hook instance
    rendered,        \* the flags the instance's current load() closes over
    ffmpegRef,       \* ffmpegRef.current: 0 = null, else the id of the FFmpeg object
    loads,           \* the engine initializations load() has started, in order
    lastLoad         \* how the instance's latest load() call stands

loaderVars == <<hasSAB, loadPromise, ffmpegInstance, isReady, attempts, calls,
                nInstances, nFetch, nLoad>>
hookVars == <<hstate, herror, hdebug, abortRef>>
runnerVars == <<jobs, handlers, fs, nEvents, refused>>
pageVars == <<queue, processingRef, passes, handed, nextId, reentered, toast>>
variantVars == <<loaded, loading, loadError, rendered, ffmpegRef, loads, lastLoad>>
engineVars == <<loaderVars, hookVars, runnerVars, variantVars>>
otherVars == <<pageVars, variantVars>>
vars == <<loaderVars, hookVars, runnerVars, pageVars, variantVars>>

\* ------------------------------------------------------------ the loader

\* An acquisition attempt whose promise has not settled.
InFlight(a) == attempts[a].result = "pending"

\* The lifecycle state a hook instance starts with, from the singleton as it
\* is when the component mounts.
InitialState == IF isReady THEN "ready" ELSE IF loadPromise # 0 THEN "loading" ELSE "idle"

Init ==
    /\ hasSAB \in BOOLEAN
    /\ loadPromise = 0
    /\ ffmpegInstance = 0
    /\ isReady = FALSE
    /\ attempts = <<>>
    /\ calls = <<>>
    /\ hstate = [h \in Hooks |-> "idle"]
    /\ herror = [h \in Hooks |-> NoError]
    /\ hdebug = [h \in Hooks |-> NoError]
    /\ abortRef = [h \in Hooks |-> FALSE]
    /\ nInstances = 0
    /\ nFetch = 0
    /\ nLoad = 0
    /\ jobs = <<>>
    /\ handlers = {}
    /\ fs = {}
    /\ nEvents = 0
    /\ refused = FALSE
    /\ queue = <<>>
    /\ processingRef = FALSE
    /\ passes = <<>>
    /\ handed = <<>>
    /\ nextId = 1
    /\ reentered = FALSE
    /\ toast = [kind |-> "none", n |-> 0]
    /\ loaded = [h \in Hooks |-> FALSE]
    /\ loading = [h \in Hooks |-> FALSE]
    /\ loadError = [h \in Hooks |-> NoError]
    /\ rendered = [h \in Hooks |-> [loaded |-> FALSE, loading |-> FALSE]]
    /\ ffmpegRef = [h \in Hooks |-> 0]
    /\ loads = <<>>
    /\ lastLoad = [h \in Hooks |-> "none"]

\* The singleton is in the Failed lifecycle state: the latest attempt ended in
\* failure, none is in flight and the engine is not ready.
SingletonFailed ==
    /\ attempts # <<>>
    /\ attempts[Len(attempts)].result = "false"
    /\ ~isReady

\* doLoad's capability test: `typeof SharedArrayBuffer === 'undefined'`.
CapabilityMissing_Ignored == FALSE
CapabilityMissing == ~hasSAB

\* ensureLoaded's first test: `if (isReady && ffmpegInstance)`.
AlreadyLoaded == isReady /\ ffmpegInstance # 0

\* ensureLoaded's second test: `if (loadPromise)`.
AlreadyLoading_NoGuard == FALSE
AlreadyLoading == loadPromise # 0

\* The record of an ensureLoaded() call: the promise it awaits, its result once
\* it has returned, the engine object the caller then finds (inst, 0 = none),
\* and whether the call was made with the singleton Failed.
NewCall(h, kind, p, pc, res) ==
    [hook |-> h, kind |-> kind, promise |-> p, pc |-> pc, result |-> res,
     inst |-> IF res THEN ffmpegInstance ELSE 0, sawFailed |-> SingletonFailed]

\* The catch block of doLoad run for attempt a of hook h: diagnostics, state
\* 'error', and the singleton reset.
DoLoadCatch(h) ==
    /\ hdebug' = [hdebug EXCEPT ![h] = LoadMsg]
    /\ herror' = [herror EXCEPT ![h] = LoadMsg]
    /\ hstate' = [hstate EXCEPT ![h] = "error"]
    /\ ffmpegInstance' = 0
    /\ isReady' = FALSE

\* ensureLoaded() when the engine is ready: setState('ready'); return true.
EnsureLoadedReady(h) ==
    /\ Len(calls) < MaxCalls
    /\ AlreadyLoaded
    /\ hstate' = [hstate EXCEPT ![h] = "ready"]
    /\ calls' = Append(calls, NewCall(h, "cached", 0, "done", TRUE))
    /\ UNCHANGED <<hasSAB, loadPromise, ffmpegInstance, isReady, attempts,
                   nInstances, nFetch, nLoad, herror, hdebug, abortRef, runnerVars, otherVars>>

\* ensureLoaded() while loadPromise is set: setState('loading'); await loadPromise.
EnsureLoadedJoin(h) ==
    /\ Len(calls) < MaxCalls
    /\ ~AlreadyLoaded
    /\ AlreadyLoading
    /\ hstate' = [hstate EXCEPT ![h] = "loading"]
    /\ calls' = Append(calls, NewCall(h, "joined", loadPromise, "await", FALSE))
    /\ UNCHANGED <<hasSAB, loadPromise, ffmpegInstance, isReady, attempts,
                   nInstances, nFetch, nLoad, herror, hdebug, abortRef, runnerVars, otherVars>>

\* ensureLoaded() that starts a load: loadPromise = doLoad(); return loadPromise.
\* doLoad() runs synchronously up to its first await (or its return) before the
\* assignment to loadPromise takes place.
\*   - SharedArrayBuffer absent: diagnostics, state 'error', return false;
\*   - an exception before the first await (the constructor, window.location):
\*     the catch block runs, return false;
\*   - otherwise the engine object is built and the first asset fetch starts.
EnsureLoadedStart(h) ==
    /\ Len(calls) < MaxCalls
    /\ Len(attempts) < MaxAttempts
    /\ ~AlreadyLoaded
    /\ ~AlreadyLoading
    /\ LET p == Len(attempts) + 1 IN
       /\ calls' = Append(calls, NewCall(h, "started", p, "await", FALSE))
       /\ loadPromise' = p
       /\ \/ /\ CapabilityMissing
             /\ herror' = [herror EXCEPT ![h] = SABMsg]
             /\ hdebug' = [hdebug EXCEPT ![h] = SABMsg]
             /\ hstate' = [hstate EXCEPT ![h] = "error"]
             /\ attempts' = Append(attempts, [hook |-> h, pc |-> "done", result |-> "false"])
             /\ UNCHANGED <<ffmpegInstance, isReady, nInstances, nFetch>>
          \/ /\ ~CapabilityMissing
             /\ nInstances' = nInstances + 1
             /\ DoLoadCatch(h)
             /\ attempts' = Append(attempts, [hook |-> h, pc |-> "done", result |-> "false"])
             /\ UNCHANGED nFetch
          \/ /\ ~CapabilityMissing
             /\ nInstances' = nInstances + 1
             /\ ffmpegInstance' = nInstances + 1
             /\ nFetch' = nFetch + 1
             /\ hstate' = [hstate EXCEPT ![h] = "loading"]
             /\ herror' = [herror EXCEPT ![h] = NoError]
             /\ hdebug' = [hdebug EXCEPT ![h] = NoError]
             /\ attempts' = Append(attempts, [hook |-> h, pc |-> "core", result |-> "pending"])
             /\ UNCHANGED isReady
    /\ UNCHANGED <<hasSAB, nLoad, abortRef, runnerVars, otherVars>>

\* doLoad resumes after `await toBlobURL(core)`, `await toBlobURL(wasm)` or
\* `await ffmpeg.load()`: the awaited operation succeeded.
DoLoadStepOk(a) ==
    /\ a \in DOMAIN attempts
    /\ InFlight(a)
    /\ LET h == attempts[a].hook IN
       \/ /\ attempts[a].pc = "core"
          /\ attempts' = [attempts EXCEPT ![a].pc = "wasm"]
          /\ nFetch' = nFetch + 1
          /\ UNCHANGED <<nLoad, isReady, hstate>>
       \/ /\ attempts[a].pc = "wasm"
          /\ attempts' = [attempts EXCEPT ![a].pc = "load"]
          /\ nLoad' = nLoad + 1
          /\ UNCHANGED <<nFetch, isReady, hstate>>
       \/ /\ attempts[a].pc = "load"
          /\ attempts' = [attempts EXCEPT ![a].pc = "done", ![a].result = "true"]
          /\ isReady' = TRUE
          /\ hstate' = [hstate EXCEPT ![h] = "ready"]
          /\ UNCHANGED <<nFetch, nLoad>>
    /\ UNCHANGED <<hasSAB, loadPromise, ffmpegInstance, calls, nInstances,
                   herror, hdebug, abortRef, runnerVars, otherVars>>

\* The awaited operation rejected: the catch block runs and resets the singleton.
DoLoadStepFail(a) ==
    /\ a \in DOMAIN attempts
    /\ InFlight(a)
    /\ DoLoadCatch(attempts[a].hook)
    /\ loadPromise' = 0
    /\ attempts' = [attempts EXCEPT ![a].pc = "done", ![a].result = "false"]
    /\ UNCHANGED <<hasSAB, calls, nInstances, nFetch, nLoad, abortRef, runnerVars, otherVars>>

\* What `await loadPromise` yields to call c: the value of the promise it read.
AwaitedResult_AlwaysTrue(c) == TRUE
AwaitedResult(c) == attempts[calls[c].promise].result = "true"

\* An ensureLoaded() call resumes once the promise it awaits has settled.  The
\* call that joined an attempt then runs setState(result ? 'ready' : 'error').
EnsureLoadedResume(c) ==
    /\ c \in DOMAIN calls
    /\ calls[c].pc = "await"
    /\ ~InFlight(calls[c].promise)
    /\ LET r == AwaitedResult(c) IN
       /\ calls' = [calls EXCEPT ![c].pc = "done", ![c].result = r,
                                 ![c].inst = IF r THEN ffmpegInstance ELSE 0]
       /\ IF calls[c].kind = "joined"
          THEN hstate' = [hstate EXCEPT ![calls[c].hook] = IF r THEN "ready" ELSE "error"]
          ELSE UNCHANGED hstate
    /\ UNCHANGED <<hasSAB, loadPromise, ffmpegInstance, isReady, attempts,
                   nInstances, nFetch, nLoad, herror, hdebug, abortRef, runnerVars, otherVars>>

\* ------------------------------------------------------------ the runner

\* The names of the source files handed to convert(), as sequences of
\* characters: the k-th convert() call is given FileOf(k).
Files == << <<"A", ".", "M", "O", "V">>, <<"b", ".">>, <<"c", ".", "m", "o", "v">> >>
FileOf(k) == Files[((k - 1) % Len(Files)) + 1]

\* String.prototype.toLowerCase on the characters file names are made of.
ToLower(ch) ==
    CASE ch = "A" -> "a" [] ch = "M" -> "m" [] ch = "O" -> "o" [] ch = "V" -> "v"
      [] OTHER -> ch

RECURSIVE Str(_)
Str(s) == IF s = <<>> THEN "" ELSE ToLower(s[1]) \o Str(Tail(s))

\* getExtension: filename.match(/\.[^.]+$/), lower-cased, else '.mp4'.  The
\* pattern matches from the last dot when at least one character follows it.
getExtension(name) ==
    LET dots == {i \in 1..Len(name) : name[i] = "."} IN
    IF dots = {} THEN ".mp4"
    ELSE LET d == CHOOSE i \in dots : \A k \in dots : k <= i IN
         IF d < Len(name) THEN Str(SubSeq(name, d, Len(name))) ELSE ".mp4"

InputName(f) == "input" \o getExtension(f)
OutputName == "output.mp4"

\* Fractions an engine progress event may report, in tenths (0.4, 1.2).
Fractions == {4, 12}

\* The fractions again, with one below 0 (-0.2): the engine computes the
\* fraction from the timestamps of its log, which can precede the start.
AnyFractions == Fractions \cup {-2}

\* The value the progress listener hands to onProgress for a reported fraction
\* of t tenths: Math.min(progress * 100, 99).
ClampNoCeiling(t) == (t * 100) \div 10
Clamp(t) == LET pct == (t * 100) \div 10 IN IF pct < 99 THEN pct ELSE 99

Active(j) == jobs[j].pc # "done"

\* convert() returns: the job's promise resolves with a Blob or with null.
Return(j, out) == [jobs EXCEPT ![j].pc = "done", ![j].outcome = out]

\* The conversion profiles, the k-th convert() call being given ModeOf(k).
Modes == <<"fast", "reencode">>
ModeOf(k) == Modes[((k - 1) % Len(Modes)) + 1]

\* The argument list handed to ffmpeg.exec (useFFmpeg.ts:216-235).
Args_AlwaysCopy(mode, in, out) ==
    <<"-i", in, "-c", "copy", "-movflags", "+faststart", out>>
Args(mode, in, out) ==
    IF mode = "fast"
    THEN <<"-i", in, "-c", "copy", "-movflags", "+faststart", out>>
    ELSE <<"-i", in, "-c:v", "libx264", "-preset", "fast", "-crf", "23",
           "-c:a", "aac", "-b:a", "128k", "-movflags", "+faststart", out>>

\* The test convert() opens with: `if (!ffmpegInstance || !isReady) return null`.
EngineReady_InstanceOnly == ffmpegInstance # 0
EngineReady == ffmpegInstance # 0 /\ isReady

\* convert() called while the engine is not ready: return null at once, with
\* nothing touched.  refused remembers that such a call was made.
ConvertRefused(h) ==
    /\ ~EngineReady
    /\ refused' = TRUE
    /\ UNCHANGED <<otherVars, loaderVars, hookVars, jobs, handlers, fs, nEvents>>

\* convert() on a ready engine, up to its first await: abortRef.current = false,
\* the progress listener is registered, fetchFile/writeFile are issued.
ConvertStart(h) ==
    /\ Len(jobs) < MaxJobs
    /\ EngineReady
    /\ abortRef' = [abortRef EXCEPT ![h] = FALSE]
    /\ jobs' = Append(jobs, [hook |-> h, file |-> FileOf(Len(jobs) + 1),
                             mode |-> ModeOf(Len(jobs) + 1), pc |-> "write",
                             outcome |-> "none", read |-> FALSE, threw |-> FALSE,
                             setErr |-> NoError, sawAbort |-> FALSE,
                             delivered |-> <<>>, cancelAt |-> -1, delTried |-> {}])
    /\ handlers' = handlers \cup {Len(jobs) + 1}
    /\ UNCHANGED <<otherVars, loaderVars, hstate, herror, hdebug, fs, nEvents, refused>>

\* What writeFile, exec or readFile reject with when they fail: an Error object
\* carrying the engine's message, or another value (the engine's worker relays
\* its failures as plain strings).  The k-th conversion meets the k-th kind.
Rejections == <<"value", "Error">>
RejectionOf(k) == Rejections[((k - 1) % Len(Rejections)) + 1]

\* useFFmpeg.ts:252: err instanceof Error ? err.message : 'Conversion failed'.
MessageOf(r) == IF r = "Error" THEN EngineMsg ELSE ConvMsg

\* The catch block of convert: setError(message); return null.
ConvertCatch_ResetsEngine(j) ==
    /\ herror' = [herror EXCEPT ![jobs[j].hook] = MessageOf(RejectionOf(j))]
    /\ jobs' = [Return(j, "null") EXCEPT ![j].threw = TRUE,
                                         ![j].setErr = MessageOf(RejectionOf(j))]
    /\ isReady' = FALSE
    /\ ffmpegInstance' = 0
    /\ UNCHANGED <<otherVars, hasSAB, loadPromise, attempts, calls, nInstances, nFetch,
                   nLoad, hstate, hdebug, abortRef, handlers, nEvents, refused>>
ConvertCatch(j) ==
    /\ herror' = [herror EXCEPT ![jobs[j].hook] = MessageOf(RejectionOf(j))]
    /\ jobs' = [Return(j, "null") EXCEPT ![j].threw = TRUE,
                                         ![j].setErr = MessageOf(RejectionOf(j))]
    /\ UNCHANGED <<otherVars, loaderVars, hstate, hdebug, abortRef, handlers, nEvents,
                   refused>>

\* `await ffmpeg.writeFile(inputName, await fetchFile(file))` completes and
\* ffmpeg.exec(args) is issued, or one of the two rejects.
WriteDone(j) ==
    /\ j \in DOMAIN jobs
    /\ jobs[j].pc = "write"
    /\ \/ /\ fs' = fs \cup {InputName(jobs[j].file)}
          /\ jobs' = [jobs EXCEPT ![j].pc = "exec"]
          /\ UNCHANGED <<otherVars, loaderVars, hookVars, handlers, nEvents, refused>>
       \/ /\ ConvertCatch(j)
          /\ UNCHANGED fs

\* The engine emits a progress event, reporting t tenths, while a command is
\* executing: every registered listener runs, and returns early when its hook's
\* abortRef is set.  delivered lists what onProgress was called with: the
\* value, whether it came from an engine event, and the fraction reported.
EmitProgress(t) ==
    /\ nEvents < MaxEvents
    /\ \E j \in DOMAIN jobs : jobs[j].pc = "exec"
    /\ nEvents' = nEvents + 1
    /\ jobs' = [j \in DOMAIN jobs |->
                  IF j \in handlers /\ ~abortRef[jobs[j].hook]
                  THEN [jobs[j] EXCEPT !.delivered = Append(@, [v |-> Clamp(t), ev |-> TRUE, t |-> t])]
                  ELSE jobs[j]]
    /\ UNCHANGED <<otherVars, loaderVars, hookVars, handlers, fs, refused>>

\* Where convert() goes after exec: `if (abortRef.current)` cleanup without
\* reading, else readFile.
AfterExec_IgnoreFlag(j) == "read"
AfterExec(j) == IF abortRef[jobs[j].hook] THEN "del1" ELSE "read"

\* `await ffmpeg.exec(args)` completes.  The command wrote the entry that args
\* names last (wrote) or ended without one; then the cancellation flag is
\* tested: set, cleanup starts without reading; clear, readFile(outputName) is
\* issued.
ExecDone(j) ==
    /\ j \in DOMAIN jobs
    /\ jobs[j].pc = "exec"
    /\ \/ /\ \E wrote \in BOOLEAN :
                LET args == Args(jobs[j].mode, InputName(jobs[j].file), OutputName) IN
                fs' = IF wrote THEN fs \cup {args[Len(args)]} ELSE fs
          /\ jobs' = [jobs EXCEPT ![j].pc = AfterExec(j),
                                  ![j].sawAbort = abortRef[jobs[j].hook]]
          /\ UNCHANGED <<otherVars, loaderVars, hookVars, handlers, nEvents, refused>>
       \/ /\ ConvertCatch(j)
          /\ UNCHANGED fs

\* `await ffmpeg.readFile(outputName)` completes: it rejects when the entry does
\* not exist, else the bytes are read and cleanup starts.
ReadDone(j) ==
    /\ j \in DOMAIN jobs
    /\ jobs[j].pc = "read"
    /\ \/ /\ OutputName \in fs
          /\ jobs' = [jobs EXCEPT ![j].pc = "del1", ![j].read = TRUE]
          /\ UNCHANGED <<otherVars, loaderVars, hookVars, handlers, fs, nEvents, refused>>
       \/ /\ ConvertCatch(j)
          /\ UNCHANGED fs

\* The entry cleanup(ffmpeg, inputName, outputName) is deleting: the input
\* entry first, the output entry second.
DelName_InputTwice(j) == InputName(jobs[j].file)
DelName(j) == IF jobs[j].pc = "del1" THEN InputName(jobs[j].file) ELSE OutputName

\* cleanup() wraps each deleteFile in try/catch with an empty handler: a
\* rejection is swallowed and the loop goes on to the next entry.
CleanupCatches_Not == FALSE
CleanupCatches == TRUE

\* cleanup(): one `await ffmpeg.deleteFile(file)` settles, for the input entry
\* first and for the output entry second.  Rejected, the entry stays as it
\* was; resolved, the entry is gone.  After the second
\* one convert goes on: the cancelled path returns null, the success path calls
\* onProgress({progress: 100}) and returns the Blob.
DeleteStep(j, rejected) ==
    LET name == DelName(j)
        tried == [jobs EXCEPT ![j].delTried = @ \cup {name}]
    IN
    IF rejected /\ ~CleanupCatches
    THEN ConvertCatch(j) /\ UNCHANGED fs
    ELSE /\ fs' = IF rejected THEN fs ELSE fs \ {name}
         /\ jobs' =
              IF jobs[j].pc = "del1" THEN [tried EXCEPT ![j].pc = "del2"]
              ELSE IF jobs[j].read
                   THEN [tried EXCEPT ![j].pc = "done", ![j].outcome = "blob",
                                      ![j].delivered = Append(@, [v |-> 100, ev |-> FALSE])]
                   ELSE [tried EXCEPT ![j].pc = "done", ![j].outcome = "null"]
         /\ UNCHANGED <<otherVars, loaderVars, hookVars, handlers, nEvents, refused>>

\* deleteFile settles as the workspace dictates: it resolves when the entry
\* exists and rejects when there is no such entry.
DeleteDone(j) ==
    /\ j \in DOMAIN jobs
    /\ jobs[j].pc \in {"del1", "del2"}
    /\ DeleteStep(j, DelName(j) \notin fs)

\* deleteFile rejects although the entry exists (the engine fails).
DeleteRejects(j) ==
    /\ j \in DOMAIN jobs
    /\ jobs[j].pc \in {"del1", "del2"}
    /\ DelName(j) \in fs
    /\ DeleteStep(j, TRUE)

\* cancel(): abortRef.current = true, and nothing else.  cancelAt remembers,
\* for every job of the hook that has not returned yet, how many values it had
\* been handed so far.
Cancel_Resolves(h) ==
    /\ abortRef' = [abortRef EXCEPT ![h] = TRUE]
    /\ jobs' = [j \in DOMAIN jobs |->
                  IF jobs[j].hook = h /\ Active(j)
                  THEN [jobs[j] EXCEPT !.cancelAt = Len(jobs[j].delivered),
                                       !.pc = "done", !.outcome = "null"]
                  ELSE jobs[j]]
    /\ UNCHANGED <<otherVars, loaderVars, hstate, herror, hdebug, handlers, fs, nEvents, refused>>
Cancel(h) ==
    /\ abortRef' = [abortRef EXCEPT ![h] = TRUE]
    /\ jobs' = [j \in DOMAIN jobs |->
                  IF jobs[j].hook = h /\ Active(j) /\ jobs[j].cancelAt = -1
                  THEN [jobs[j] EXCEPT !.cancelAt = Len(jobs[j].delivered)]
                  ELSE jobs[j]]
    /\ UNCHANGED <<otherVars, loaderVars, hstate, herror, hdebug, handlers, fs, nEvents, refused>>

\* ------------------------------------------------------- specifications

\* The callers' discipline: one conversion at a time (the queue pass awaits
\* each convert() before the next), and cancel() while a conversion of the
\* hook is running.
NoneActive == \A j \in DOMAIN jobs : ~Active(j)
Converting(h) == \E j \in DOMAIN jobs : jobs[j].hook = h /\ Active(j)

\* The loader under every interleaving of ensureLoaded() calls from the hook
\* instances, with convert() calls at any moment, one conversion at most, and
\* an engine that reports no progress (progress events touch no variable the
\* loader reads; SpecRunner has them).
Next ==
    \/ \E h \in Hooks : EnsureLoadedReady(h)
    \/ \E h \in Hooks : EnsureLoadedJoin(h)
    \/ \E h \in Hooks : EnsureLoadedStart(h)
    \/ \E a \in 1..MaxAttempts : DoLoadStepOk(a)
    \/ \E a \in 1..MaxAttempts : DoLoadStepFail(a)
    \/ \E c \in 1..MaxCalls : EnsureLoadedResume(c)
    \/ \E h \in Hooks : ConvertRefused(h)
    \/ \E h \in Hooks : jobs = <<>> /\ ConvertStart(h)
    \/ \E j \in 1..MaxJobs : WriteDone(j)
    \/ \E j \in 1..MaxJobs : ExecDone(j)
    \/ \E j \in 1..MaxJobs : ReadDone(j)
    \/ \E j \in 1..MaxJobs : DeleteDone(j)
    \/ \E h \in Hooks : Converting(h) /\ Cancel(h)

Spec == Init /\ [][Next]_vars

\* The runner under every interleaving of convert() and cancel() calls and
\* engine events, the engine being acquired by the first ensureLoaded() call.
NextRunner ==
    \/ \E h \in Hooks : calls = <<>> /\ EnsureLoadedStart(h)
    \/ \E a \in 1..MaxAttempts : DoLoadStepOk(a)
    \/ \E c \in 1..MaxCalls : EnsureLoadedResume(c)
    \/ \E h \in Hooks : NoneActive /\ ConvertStart(h)
    \/ \E j \in 1..MaxJobs : WriteDone(j)
    \/ \E t \in Fractions : EmitProgress(t)
    \/ \E j \in 1..MaxJobs : ExecDone(j)
    \/ \E j \in 1..MaxJobs : ReadDone(j)
    \/ \E j \in 1..MaxJobs : DeleteDone(j)
    \/ \E h \in Hooks : Converting(h) /\ Cancel(h)

SpecRunner == Init /\ [][NextRunner]_vars

\* The runner with an engine whose operations all return: every pending
\* writeFile, exec, readFile and deleteFile eventually resolves or rejects,
\* deleteFile also rejecting for entries that exist.
\* The engine reports no progress here: a progress event changes only what
\* was delivered, which no step of convert() or cancel() reads.
NextQuiet ==
    \/ \E h \in Hooks : calls = <<>> /\ EnsureLoadedStart(h)
    \/ \E a \in 1..MaxAttempts : DoLoadStepOk(a)
    \/ \E c \in 1..MaxCalls : EnsureLoadedResume(c)
    \/ \E h \in Hooks : NoneActive /\ ConvertStart(h)
    \/ \E j \in 1..MaxJobs : WriteDone(j)
    \/ \E j \in 1..MaxJobs : ExecDone(j)
    \/ \E j \in 1..MaxJobs : ReadDone(j)
    \/ \E j \in 1..MaxJobs : DeleteDone(j)
    \/ \E j \in 1..MaxJobs : DeleteRejects(j)
    \/ \E h \in Hooks : Converting(h) /\ Cancel(h)

SpecQuiet == Init /\ [][NextQuiet]_vars

SpecRunnerFair ==
    /\ SpecQuiet
    /\ WF_vars(\E j \in 1..MaxJobs : WriteDone(j))
    /\ WF_vars(\E j \in 1..MaxJobs : ExecDone(j))
    /\ WF_vars(\E j \in 1..MaxJobs : ReadDone(j))
    /\ WF_vars(\E j \in 1..MaxJobs : DeleteDone(j) \/ DeleteRejects(j))

\* A component using the hook mounts (again): the instance is new, with the
\* useState initial values and abortRef false.  The instance it replaces has
\* no ensureLoaded() or convert() call pending.
Mount(h) ==
    /\ \A c \in DOMAIN calls : calls[c].hook = h => calls[c].pc = "done"
    /\ ~Converting(h)
    /\ hstate' = [hstate EXCEPT ![h] = InitialState]
    /\ herror' = [herror EXCEPT ![h] = NoError]
    /\ hdebug' = [hdebug EXCEPT ![h] = NoError]
    /\ abortRef' = [abortRef EXCEPT ![h] = FALSE]
    /\ UNCHANGED <<loaderVars, runnerVars, otherVars>>

\* The loader with components that mount at any moment.
NextMount ==
    \/ \E h \in Hooks : EnsureLoadedReady(h)
    \/ \E h \in Hooks : EnsureLoadedJoin(h)
    \/ \E h \in Hooks : EnsureLoadedStart(h)
    \/ \E a \in 1..MaxAttempts : DoLoadStepOk(a)
    \/ \E a \in 1..MaxAttempts : DoLoadStepFail(a)
    \/ \E c \in 1..MaxCalls : EnsureLoadedResume(c)
    \/ \E h \in Hooks : Mount(h)

SpecMount == Init /\ [][NextMount]_vars

\* ------------------------------------------- the flag-guarded hook variant
\* The useFFmpeg of src/unnamed/part_001 (src/src/app/layout.tsx holds the
\* same hook without the capability test): no module singleton, the engine
\* object in a per-instance ref, and load() guarded by the instance's
\* loaded/loading useState flags.  load is a useCallback over [loaded,
\* loading]: it tests the values of the render that created it.

\* load() up to its first await.  Past the two guards it sets loading, clears
\* the error, and either fails the capability test or builds the engine
\* object and starts fetching the core script.
VLoad(h) ==
    /\ (~rendered[h].loaded /\ ~rendered[h].loading /\ hasSAB) => Len(loads) < MaxLoads
    /\ IF rendered[h].loaded
       THEN /\ lastLoad' = [lastLoad EXCEPT ![h] = "true"]
            /\ UNCHANGED <<loading, loadError, ffmpegRef, loads>>
       ELSE IF rendered[h].loading
       THEN /\ lastLoad' = [lastLoad EXCEPT ![h] = "false"]
            /\ UNCHANGED <<loading, loadError, ffmpegRef, loads>>
       ELSE IF ~hasSAB
       THEN /\ loading' = [loading EXCEPT ![h] = FALSE]
            /\ loadError' = [loadError EXCEPT ![h] = SABMsg]
            /\ lastLoad' = [lastLoad EXCEPT ![h] = "false"]
            /\ UNCHANGED <<ffmpegRef, loads>>
       ELSE /\ loading' = [loading EXCEPT ![h] = TRUE]
            /\ loadError' = [loadError EXCEPT ![h] = NoError]
            /\ ffmpegRef' = [ffmpegRef EXCEPT ![h] = Len(loads) + 1]
            /\ loads' = Append(loads, [hook |-> h, pc |-> "core"])
            /\ lastLoad' = [lastLoad EXCEPT ![h] = "pending"]
    /\ UNCHANGED <<loaderVars, hookVars, runnerVars, pageVars, loaded, rendered>>

\* React renders the component again after a flag changed: load is created
\* anew over the current flags.
VRender(h) ==
    /\ rendered[h] # [loaded |-> loaded[h], loading |-> loading[h]]
    /\ rendered' = [rendered EXCEPT ![h] = [loaded |-> loaded[h], loading |-> loading[h]]]
    /\ UNCHANGED <<loaderVars, hookVars, runnerVars, pageVars, loaded, loading, loadError,
                   ffmpegRef, loads, lastLoad>>

\* load() resumes after `await toBlobURL(core)`, `await toBlobURL(wasm)` or
\* `await ffmpeg.load()`: the awaited operation succeeded.  After the last
\* one: setLoaded(true); setLoading(false); return true.
VLoadStepOk(i) ==
    /\ i \in DOMAIN loads
    /\ loads[i].pc # "done"
    /\ LET h == loads[i].hook IN
       \/ /\ loads[i].pc = "core"
          /\ loads' = [loads EXCEPT ![i].pc = "wasm"]
          /\ UNCHANGED <<loaded, loading, lastLoad>>
       \/ /\ loads[i].pc = "wasm"
          /\ loads' = [loads EXCEPT ![i].pc = "load"]
          /\ UNCHANGED <<loaded, loading, lastLoad>>
       \/ /\ loads[i].pc = "load"
          /\ loads' = [loads EXCEPT ![i].pc = "done"]
          /\ loaded' = [loaded EXCEPT ![h] = TRUE]
          /\ loading' = [loading EXCEPT ![h] = FALSE]
          /\ lastLoad' = [lastLoad EXCEPT ![h] = "true"]
    /\ UNCHANGED <<loaderVars, hookVars, runnerVars, pageVars, loadError, rendered, ffmpegRef>>

\* The awaited operation rejected: setError(message); setLoading(false);
\* return false.
VLoadStepFail(i) ==
    /\ i \in DOMAIN loads
    /\ loads[i].pc # "done"
    /\ loads' = [loads EXCEPT ![i].pc = "done"]
    /\ loadError' = [loadError EXCEPT ![loads[i].hook] = LoadMsg]
    /\ loading' = [loading EXCEPT ![loads[i].hook] = FALSE]
    /\ lastLoad' = [lastLoad EXCEPT ![loads[i].hook] = "false"]
    /\ UNCHANGED <<loaderVars, hookVars, runnerVars, pageVars, loaded, rendered, ffmpegRef>>

\* The variant under every interleaving of load() calls, renders and engine
\* completions.
NextVariant ==
    \/ \E h \in Hooks : VLoad(h)
    \/ \E h \in Hooks : VRender(h)
    \/ \E i \in 1..MaxLoads : VLoadStepOk(i)
    \/ \E i \in 1..MaxLoads : VLoadStepFail(i)

SpecVariant == Init /\ [][NextVariant]_vars

\* One conversion on a ready engine, the engine reporting any fraction while
\* the command executes.
NextProgress ==
    \/ \E h \in Hooks : calls = <<>> /\ EnsureLoadedStart(h)
    \/ \E a \in 1..MaxAttempts : DoLoadStepOk(a)
    \/ \E c \in 1..MaxCalls : EnsureLoadedResume(c)
    \/ \E h \in Hooks : jobs = <<>> /\ ConvertStart(h)
    \/ \E j \in 1..MaxJobs : WriteDone(j)
    \/ \E t \in AnyFractions : EmitProgress(t)
    \/ \E j \in 1..MaxJobs : ExecDone(j)
    \/ \E j \in 1..MaxJobs : ReadDone(j)
    \/ \E j \in 1..MaxJobs : DeleteDone(j)
    \/ \E h \in Hooks : Converting(h) /\ Cancel(h)

SpecProgress == Init /\ [][NextProgress]_vars

\* ------------------------------------------------------- the queue page
\* The Home page (src/unnamed/part_000): the list of QueueItems, the
\* startProcessing() pass over it and the mock conversion routine
\* simulateConversion().  The page converts with the mock only: it calls
\* neither ensureLoaded() nor convert().  A handler sees the queue as last
\* rendered, which is the queue state at the time of the event.

\* Progress values (per cent) a timer tick can compute from the elapsed time.
Levels_NoEnd == {40, 80}
Levels == {40, 80, 100}

\* How many files one drop or file selection can add.
Batches == {1, 2}

Terminal == {"completed", "error"}

hasQueued == \E i \in DOMAIN queue : queue[i].status = "queued"
hasCompleted == \E i \in DOMAIN queue : queue[i].status = "completed"
isProcessing == \E i \in DOMAIN queue : queue[i].status = "converting"

RECURSIVE Ids(_)
Ids(q) == IF q = <<>> THEN <<>> ELSE <<q[1].id>> \o Ids(Tail(q))

RECURSIVE Filter(_, _)
Filter(q, keep) ==
    IF q = <<>> THEN <<>>
    ELSE (IF q[1].status \in keep THEN <<q[1]>> ELSE <<>>) \o Filter(Tail(q), keep)

\* files.map(file => ({id: crypto.randomUUID(), file, status: 'queued',
\* progress: 0})): one item per file, in the order given.  The identifiers
\* randomUUID() returns are the integers from nextId on.
NewItems_SameId(n) == [i \in 1..n |-> [id |-> nextId, status |-> "queued", progress |-> 0]]
NewItems(n) == [i \in 1..n |-> [id |-> nextId + i - 1, status |-> "queued", progress |-> 0]]

\* addFiles(files): setQueue(prev => [...prev, ...newItems]) and a toast.
AddFiles(n) ==
    /\ nextId + n - 1 <= MaxItems
    /\ queue' = queue \o NewItems(n)
    /\ nextId' = nextId + n
    /\ toast' = [kind |-> "added", n |-> n]
    /\ UNCHANGED <<engineVars, processingRef, passes, handed, reentered>>

\* What the pass leaves in the flag when it returns:
\* processingRef.current = false.
FlagAfterPass_Kept == TRUE
FlagAfterPass == FALSE

\* The guard of startProcessing: if (processingRef.current) return.
Busy_Never == FALSE
Busy == processingRef

\* const queuedItems = queue.filter((q) => q.status === 'queued')
QueuedItems_All == Ids(queue)
QueuedItems == Ids(Filter(queue, {"queued"}))

\* The items the for...of loop of pass k walks: the array taken at invocation.
PassItems_Live(k) ==
    SubSeq(passes[k].items, 1, passes[k].idx) \o Ids(Filter(queue, {"queued"}))
PassItems(k) == passes[k].items

\* The test of the updater that simulateConversion hands to setQueue.
IsItem_Any(q, id) == TRUE
IsItem(q, id) == q.id = id

\* setQueue(prev => prev.map(q => q.id === id ? {...q, progress, status} : q))
SetItem(q, id, st, pr) ==
    [i \in DOMAIN q |-> IF IsItem(q[i], id)
                         THEN [q[i] EXCEPT !.status = st, !.progress = pr]
                         ELSE q[i]]

\* startProcessing(), up to its first await.  A call that finds the flag set
\* returns at once.  Otherwise the flag is set, the queued items are taken, and
\* the first of them is handed to simulateConversion, which starts its timer;
\* with nothing queued the loop body never runs and the call returns.  mark is
\* the id the next added file will get, p the progress of the latest tick.
StartProcessing ==
    IF Busy
    THEN /\ reentered' = TRUE
         /\ UNCHANGED <<engineVars, queue, processingRef, passes, handed, nextId, toast>>
    ELSE /\ IF QueuedItems = <<>>
            THEN /\ toast' = [kind |-> "converted", n |-> 0]
                 /\ processingRef' = FlagAfterPass
                 /\ UNCHANGED <<passes, handed>>
            ELSE /\ toast' = [kind |-> "processing", n |-> Len(QueuedItems)]
                 /\ processingRef' = TRUE
                 /\ passes' = Append(passes, [items |-> QueuedItems, idx |-> 1, p |-> 0,
                                              mark |-> nextId])
                 /\ handed' = Append(handed, QueuedItems[1])
         /\ UNCHANGED <<engineVars, queue, nextId, reentered>>

\* The timer of the conversion that pass k awaits fires and computes lvl per
\* cent.  Below 100 the item is set to converting with that progress.  At 100
\* the timer is cleared, the item is set to completed and the promise resolves:
\* the pass resumes, hands its next item to simulateConversion, or, past its
\* last item, reports and clears the flag.
Tick(k, lvl) ==
    /\ k \in DOMAIN passes
    /\ lvl > passes[k].p
    /\ LET ps == passes[k]
           id == ps.items[ps.idx]
           items == PassItems(k)
       IN  IF lvl < 100
           THEN /\ queue' = SetItem(queue, id, "converting", lvl)
                /\ passes' = [passes EXCEPT ![k].p = lvl]
                /\ UNCHANGED <<processingRef, handed, toast>>
           ELSE /\ queue' = SetItem(SetItem(queue, id, "converting", 100), id,
                                    "completed", 100)
                /\ IF ps.idx < Len(items)
                   THEN /\ passes' = [passes EXCEPT ![k].items = items,
                                                    ![k].idx = ps.idx + 1, ![k].p = 0]
                        /\ handed' = Append(handed, items[ps.idx + 1])
                        /\ UNCHANGED <<processingRef, toast>>
                   ELSE /\ passes' = [i \in 1..(Len(passes) - 1) |->
                                         IF i < k THEN passes[i] ELSE passes[i + 1]]
                        /\ toast' = [kind |-> "converted", n |-> Len(ps.items)]
                        /\ processingRef' = FlagAfterPass
                        /\ UNCHANGED handed
    /\ UNCHANGED <<engineVars, nextId, reentered>>

\* removeItem(id): setQueue(prev => prev.filter(q => q.id !== id)).
RemoveItem(id) ==
    /\ \E i \in DOMAIN queue : queue[i].id = id
    /\ queue' = SelectSeq(queue, LAMBDA q : q.id # id)
    /\ UNCHANGED <<engineVars, processingRef, passes, handed, nextId, reentered, toast>>

\* const count = queue.filter((q) => q.status === 'completed').length
CountCompleted_All == Len(queue)
CountCompleted == Len(Filter(queue, {"completed"}))

\* clearCompleted(): drop the completed items and report how many.
ClearCompleted ==
    /\ queue' = SelectSeq(queue, LAMBDA q : q.status # "completed")
    /\ toast' = [kind |-> "cleared", n |-> CountCompleted]
    /\ UNCHANGED <<engineVars, processingRef, passes, handed, nextId, reentered>>

\* The buttons the page renders: Start when something is queued and nothing is
\* converting, Remove on an item that is not converting, Clear when something
\* is completed.
CanStart == hasQueued /\ ~isProcessing
CanRemove(id) == \E i \in DOMAIN queue : queue[i].id = id /\ queue[i].status # "converting"
CanClear == hasCompleted

\* The page under every order of drops, clicks and timer ticks, beside a hook
\* whose first ensureLoaded() call has been made.
NextPage ==
    \/ \E h \in Hooks : calls = <<>> /\ EnsureLoadedStart(h)
    \/ \E n \in Batches : AddFiles(n)
    \/ CanStart /\ StartProcessing
    \/ \E k \in 1..MaxItems, lvl \in Levels : Tick(k, lvl)
    \/ \E id \in 1..MaxItems : CanRemove(id) /\ RemoveItem(id)
    \/ CanClear /\ ClearCompleted

SpecPage == Init /\ [][NextPage]_vars

\* The page with timers that keep firing: setInterval calls its callback
\* every 50 ms until clearInterval.
SpecPageFair ==
    /\ Init /\ [][NextPage]_vars
    /\ WF_vars(\E k \in 1..MaxItems, lvl \in Levels : Tick(k, lvl))

\* ------------------------------------------------------------ properties

Range(seq) == {seq[i] : i \in DOMAIN seq}
Values(j) == [i \in DOMAIN jobs[j].delivered |-> jobs[j].delivered[i].v]
NonDecreasing(seq) == \A i, k \in DOMAIN seq : i < k => seq[i] <= seq[k]
Names(j) == {InputName(jobs[j].file), OutputName}

\* C1 Single-flight acquisition: at most one acquisition attempt, and so at
\* most one FFmpeg.load, is in flight at any time; every attempt was started by
\* exactly one ensureLoaded() call, however many calls joined it; and an attempt
\* builds at most one engine object and starts at most one FFmpeg.load.
SingleFlight ==
    /\ Cardinality({a \in DOMAIN attempts : InFlight(a)}) <= 1
    /\ \A a \in DOMAIN attempts : InFlight(a) => loadPromise = a
    /\ \A a \in DOMAIN attempts :
         Cardinality({c \in DOMAIN calls :
                        calls[c].promise = a /\ calls[c].kind = "started"}) = 1
    /\ nInstances <= Len(attempts)
    /\ nLoad <= Len(attempts)

\* C1 witness: two calls, from different hook instances, have joined an attempt
\* that is still in flight.
SingleFlightWitness ==
    \E a \in DOMAIN attempts : \E c, d \in DOMAIN calls :
       /\ InFlight(a)
       /\ calls[c].kind = "joined" /\ calls[c].promise = a
       /\ calls[d].kind = "joined" /\ calls[d].promise = a
       /\ calls[c].hook # calls[d].hook

\* C2 Shared outcome: a call that started or joined an attempt resolves to that
\* attempt's outcome, so all calls on one attempt resolve alike; and every call
\* that resolved to true, at any time, finds the one engine object that is
\* cached now.
SharedOutcome ==
    /\ \A c \in DOMAIN calls :
         (calls[c].pc = "done" /\ calls[c].kind # "cached")
            => (calls[c].result <=> attempts[calls[c].promise].result = "true")
    /\ \A c \in DOMAIN calls :
         calls[c].kind = "cached" => calls[c].pc = "done" /\ calls[c].result
    /\ \A c \in DOMAIN calls :
         (calls[c].pc = "done" /\ calls[c].result)
            => calls[c].inst # 0 /\ calls[c].inst = ffmpegInstance

\* C2 witness: the call that started an attempt and a call that joined it have
\* both resolved to true, and a later call was served from the cache.
SharedOutcomeWitness ==
    \E c, d, e \in DOMAIN calls :
       /\ calls[c].kind = "started" /\ calls[c].pc = "done" /\ calls[c].result
       /\ calls[d].kind = "joined" /\ calls[d].pc = "done" /\ calls[d].result
       /\ calls[d].promise = calls[c].promise
       /\ calls[e].kind = "cached"

\* C3 Failed is not sticky: an ensureLoaded() call made when the latest attempt
\* has ended in failure starts a new acquisition attempt.
FailedNotSticky ==
    \A c \in DOMAIN calls : calls[c].sawFailed => calls[c].kind = "started"

\* C4 Ready is absorbing: from a state where the engine is ready, no step makes
\* it not ready, replaces the engine object, or starts an attempt, an engine
\* construction or an FFmpeg.load; and a call to ensureLoaded() made then has
\* returned true when the step ends.
ReadyAbsorbing ==
    [][isReady =>
         /\ isReady'
         /\ ffmpegInstance' = ffmpegInstance
         /\ attempts' = attempts
         /\ nInstances' = nInstances /\ nFetch' = nFetch /\ nLoad' = nLoad
         /\ Len(calls') > Len(calls) =>
               /\ calls'[Len(calls')].pc = "done"
               /\ calls'[Len(calls')].result]_vars

\* C4 witness: the engine is ready after a conversion was started, cancelled and
\* has ended in the catch block, and an ensureLoaded() call was served since.
ReadyAbsorbingWitness ==
    /\ isReady
    /\ \E c \in DOMAIN calls : calls[c].kind = "cached"
    /\ \E j \in DOMAIN jobs :
         jobs[j].pc = "done" /\ jobs[j].cancelAt >= 0 /\ jobs[j].threw

CleanupOnEveryExit ==
    /\ \A j \in DOMAIN jobs : jobs[j].pc = "done" => jobs[j].delTried = Names(j)
    /\ NoneActive => fs = {}

\* C7 Cancellation wins: a conversion during which cancel() was called ends
\* with null, and 100 is never delivered for it.
CancellationWins ==
    \A j \in DOMAIN jobs :
       (jobs[j].cancelAt >= 0 /\ jobs[j].pc = "done")
          => jobs[j].outcome = "null" /\ 100 \notin Range(Values(j))

\* C8 The values delivered to a job's onProgress are non-decreasing, and the
\* last one of a job that returned a Blob is 100.
ProgressMonotone ==
    \A j \in DOMAIN jobs :
       /\ NonDecreasing(Values(j))
       /\ jobs[j].outcome = "blob" => Values(j)[Len(Values(j))] = 100

\* C9 100 is reserved for confirmed completion: a value derived from an engine
\* event reporting t tenths is min(t/10 * 100, 99); any other delivered value is
\* the 100 of a conversion that had read its output and returned a Blob; a
\* conversion that ended with null was never handed 100.
HundredReserved ==
    \A j \in DOMAIN jobs :
       /\ \A i \in DOMAIN jobs[j].delivered :
            LET e == jobs[j].delivered[i] IN
            IF e.ev
            THEN /\ e.v = (IF e.t * 10 < 99 THEN e.t * 10 ELSE 99)
                 /\ e.v <= 99
            ELSE /\ e.v = 100
                 /\ jobs[j].read /\ jobs[j].outcome = "blob"
       /\ jobs[j].outcome = "null" => 100 \notin Range(Values(j))

\* C9 witness: a conversion returned a Blob after an event that reported more
\* than the whole (delivered as 99) and was handed 100 last, while another
\* conversion, handed event values too, ended with null.
HundredReservedWitness ==
    \E j, k \in DOMAIN jobs :
       /\ jobs[j].outcome = "blob"
       /\ \E i \in DOMAIN jobs[j].delivered :
            jobs[j].delivered[i].ev /\ jobs[j].delivered[i].t > 10
       /\ Values(j)[Len(Values(j))] = 100
       /\ jobs[k].outcome = "null" /\ jobs[k].delivered # <<>>

\* C10 Once cancel() has been called for a conversion, no engine progress event
\* is delivered to its onProgress any more.
NoProgressAfterCancel ==
    \A j \in DOMAIN jobs :
       jobs[j].cancelAt >= 0
          => \A i \in DOMAIN jobs[j].delivered :
                i > jobs[j].cancelAt => ~jobs[j].delivered[i].ev
\* C11 The progress subscription of a job lasts only for its invocation: once
\* convert() for a job has returned, with any outcome, no engine progress event
\* emitted afterwards is delivered to that job's onProgress callback, so what
\* was delivered to a returned job never grows.
SubscriptionEndsWithInvocation ==
    [][\A j \in DOMAIN jobs :
          jobs[j].pc = "done" => jobs'[j].delivered = jobs[j].delivered]_vars

\* C19 No exception escapes a job: whenever writeFile, exec or readFile fails,
\* convert() resolves with null and the error it records is the message the
\* engine reported.
FailureReported ==
    \A j \in DOMAIN jobs :
        jobs[j].threw => /\ jobs[j].pc = "done"
                         /\ jobs[j].outcome = "null"
                         /\ jobs[j].setErr = EngineMsg

\* C20 Cancellation is not a failure: a conversion during which cancel() was
\* requested ends without having recorded an error, whatever the engine
\* command returned or threw after the request.
CancellationNotFailure ==
    \A j \in DOMAIN jobs :
        (jobs[j].cancelAt >= 0 /\ jobs[j].pc = "done") => jobs[j].setErr = NoError

\* Helpers of the page properties.
NoDuplicates(seq) == \A a, b \in DOMAIN seq : a # b => seq[a] # seq[b]
InQueue(q, id) == \E i \in DOMAIN q : q[i].id = id
ItemOf(q, id) == q[CHOOSE i \in DOMAIN q : q[i].id = id]
Untouched(id) == ItemOf(queue, id).status = "queued" /\ ItemOf(queue, id).progress = 0

\* C12 startProcessing() is reentrant-safe: however often it is invoked while a
\* pass is in progress, at most one pass exists at a time, the flag is set as
\* long as it does, and no job is handed to the conversion routine twice.
ReentrantSafe ==
    /\ Len(passes) <= 1
    /\ passes # <<>> => processingRef
    /\ NoDuplicates(handed)

\* A call was refused at the guard while a pass was converting its second job.
ReentrantSafeWitness ==
    /\ reentered
    /\ passes # <<>>
    /\ Len(handed) >= 2

\* C13 A pass processes exactly the jobs that are queued when startProcessing()
\* is invoked, in enqueue order: the array it takes is the queued jobs in queue
\* order, the jobs it has handed over are the first idx of that array, it
\* returns only after the last of them, and a job added after the invocation
\* stays queued and untouched while the pass runs.
PassProcessesSnapshot ==
    [][/\ (passes = <<>> /\ passes' # <<>>) =>
              /\ passes'[1].items = Ids(SelectSeq(queue, LAMBDA q : q.status = "queued"))
              /\ \A a, b \in DOMAIN passes'[1].items :
                     a < b => passes'[1].items[a] < passes'[1].items[b]
       /\ \A k \in DOMAIN passes' :
              LET ps == passes'[k] IN
              /\ ps.idx <= Len(handed')
              /\ SubSeq(handed', Len(handed') - ps.idx + 1, Len(handed'))
                     = SubSeq(ps.items, 1, ps.idx)
              /\ \A i \in DOMAIN queue' :
                     queue'[i].id >= ps.mark =>
                         queue'[i].status = "queued" /\ queue'[i].progress = 0
       /\ (passes # <<>> /\ passes' = <<>>) =>
              passes[1].idx = Len(passes[1].items)]_vars

\* A pass is at the last job of its array, which has ticked, while a job added
\* after the pass started waits in the queue.
PassProcessesSnapshotWitness ==
    \E k \in DOMAIN passes :
        /\ passes[k].idx = Len(passes[k].items)
        /\ passes[k].idx >= 2
        /\ passes[k].p > 0
        /\ \E i \in DOMAIN queue : queue[i].id >= passes[k].mark

RunningJobStays ==
    [][\A k \in DOMAIN passes :
          LET id == passes[k].items[passes[k].idx] IN
          (InQueue(queue, id) /\ ItemOf(queue, id).status \notin Terminal) =>
              InQueue(queue', id)]_vars

TerminalImmutable ==
    [][\A i \in DOMAIN queue :
          queue[i].status \in Terminal =>
              \A k \in DOMAIN queue' :
                  queue'[k].id = queue[i].id => queue'[k] = queue[i]]_vars

\* A completed job sits in the queue while a second pass converts a job that
\* was added later.
TerminalImmutableWitness ==
    /\ passes # <<>>
    /\ \E i, k \in DOMAIN queue :
           /\ queue[i].status = "completed"
           /\ queue[i].id < passes[1].mark
           /\ queue[k].status = "converting"
           /\ \E a \in DOMAIN handed : a > 1 /\ handed[a] = queue[k].id
                                        /\ passes[1].items[1] = queue[k].id

\* C18 While the engine is not ready, for example after ensureLoaded() failed
\* for want of SharedArrayBuffer, a job that a pass has started never reaches
\* completed.
EngineNotReadyFails ==
    ~(isReady /\ ffmpegInstance # 0) =>
        \A i \in DOMAIN queue : queue[i].status # "completed"

\* C21 Workspace entries are job-scoped: the input and output names one
\* convert() invocation uses are used by no other invocation on the engine.
JobScopedNames ==
    \A j, k \in DOMAIN jobs : j # k => Names(j) \cap Names(k) = {}

\* C22 Loader diagnostics lifecycle: a failed acquisition attempt leaves error
\* text and debug info behind, they stay as long as no further attempt has
\* started, and once a new attempt has started no failure diagnostics are
\* left.
DiagnosticsLifecycle ==
    /\ \A a \in DOMAIN attempts :
           (a = Len(attempts) /\ attempts[a].result = "false") =>
               /\ herror[attempts[a].hook] # NoError
               /\ hdebug[attempts[a].hook] # NoError
    /\ \A a \in DOMAIN attempts :
           InFlight(a) => \A h \in Hooks : herror[h] = NoError /\ hdebug[h] = NoError

\* C23 The lifecycle state a hook shows changes only along idle -> loading,
\* loading -> ready, loading -> error and error -> loading.  A call that runs
\* doLoad() through to a failure without reaching an await passes through
\* loading within the step.
LifecycleEdges ==
    {<<"idle", "loading">>, <<"loading", "ready">>, <<"loading", "error">>,
     <<"error", "loading">>}
LifecycleTransitions ==
    [][\A h \in Hooks :
          hstate'[h] # hstate[h] =>
              \/ <<hstate[h], hstate'[h]>> \in LifecycleEdges
              \/ /\ Len(attempts') > Len(attempts)
                 /\ <<hstate[h], "loading">> \in LifecycleEdges
                 /\ <<"loading", hstate'[h]>> \in LifecycleEdges]_vars

\* C24 A cancellation request does not outlive its conversion: when cancel()
\* was called while conversion A was running and conversion B of the same hook
\* started after A ended, A ended with null, and B, if nothing was requested
\* or thrown during it, read its output and ended with a Blob.
CancelDoesNotCarryOver ==
    \A a, b \in DOMAIN jobs :
        (a < b /\ jobs[a].hook = jobs[b].hook /\ jobs[a].cancelAt >= 0) =>
            /\ jobs[a].outcome = "null"
            /\ (jobs[b].pc = "done" /\ jobs[b].cancelAt = -1 /\ ~jobs[b].threw) =>
                   jobs[b].outcome = "blob"

\* Helpers of the argument-list property.
HasRun(a, sub) ==
    \E i \in 0..(Len(a) - Len(sub)) : SubSeq(a, i + 1, i + Len(sub)) = sub
WithoutNames(a) == SubSeq(a, 3, Len(a) - 1)
Shape(m, a, in, out) ==
    /\ a[1] = "-i" /\ a[2] = in /\ a[Len(a)] = out
    /\ HasRun(a, <<"-movflags", "+faststart", out>>)
    /\ IF m = "fast"
       THEN Len(a) = 7 /\ HasRun(a, <<"-c", "copy">>)
       ELSE /\ Len(a) = 15
            /\ HasRun(a, <<"-c:v", "libx264">>) /\ HasRun(a, <<"-preset", "fast">>)
            /\ HasRun(a, <<"-crf", "23">>) /\ HasRun(a, <<"-c:a", "aac">>)
            /\ HasRun(a, <<"-b:a", "128k">>)

\* C26 The engine argument list is a function of the profile alone: 'fast'
\* gives stream copy with the fast-start flag, 'reencode' gives libx264,
\* preset fast, crf 23, aac, 128k with the fast-start flag; both read the job's
\* input entry and write its output entry; and apart from the input name the
\* list is the same for every file.
ArgsStatic ==
    /\ \A j \in DOMAIN jobs :
           Shape(jobs[j].mode, Args(jobs[j].mode, InputName(jobs[j].file), OutputName),
                 InputName(jobs[j].file), OutputName)
    /\ \A m \in Range(Modes) : \A f, g \in Range(Files) :
           /\ Shape(m, Args(m, InputName(f), OutputName), InputName(f), OutputName)
           /\ WithoutNames(Args(m, InputName(f), OutputName))
                  = WithoutNames(Args(m, InputName(g), OutputName))

\* A re-encoding conversion has run its command and returned a Blob.
ArgsStaticWitness ==
    \E j \in DOMAIN jobs :
        jobs[j].mode = "reencode" /\ jobs[j].read /\ jobs[j].outcome = "blob"

\* C27 Cancelled path: a conversion that found the cancellation flag set at
\* the test after the engine command never reads the output entry, goes
\* straight to cleanup, attempts the deletion of both its entries and returns
\* null, with no error recorded and no final 100 delivered.
CancelledPath ==
    \A j \in DOMAIN jobs :
        jobs[j].sawAbort =>
            /\ ~jobs[j].read
            /\ jobs[j].pc \in {"del1", "del2", "done"}
            /\ \A i \in DOMAIN jobs[j].delivered : jobs[j].delivered[i].ev
            /\ jobs[j].pc = "done" =>
                   /\ jobs[j].outcome = "null"
                   /\ ~jobs[j].threw
                   /\ jobs[j].delTried = Names(j)

\* A conversion found the flag set after its command and has returned.
CancelledPathWitness ==
    \E j \in DOMAIN jobs :
        jobs[j].sawAbort /\ jobs[j].pc = "done" /\ jobs[j].cancelAt >= 0

\* C28 Success path ordering: output read, then both entries deleted, then
\* onProgress(100), then the Blob.  Cleanup starts only after the read (or on
\* the cancelled path), the final 100 is delivered only to a conversion that
\* has read its output and tried both deletions, exactly once, and a
\* conversion that returned a Blob has been through all of it.
FinalCalls(j) == {i \in DOMAIN jobs[j].delivered : ~jobs[j].delivered[i].ev}
SuccessOrder ==
    \A j \in DOMAIN jobs :
        /\ jobs[j].delTried # {} => jobs[j].read \/ jobs[j].sawAbort
        /\ jobs[j].pc \in {"del1", "del2"} => jobs[j].read \/ jobs[j].sawAbort
        /\ FinalCalls(j) # {} =>
               /\ jobs[j].read
               /\ jobs[j].delTried = Names(j)
               /\ jobs[j].outcome = "blob"
               /\ \A i \in FinalCalls(j) : jobs[j].delivered[i].v = 100
        /\ jobs[j].outcome = "blob" => Cardinality(FinalCalls(j)) = 1

\* A conversion reported engine progress, read its output, removed its
\* entries, delivered 100 and returned a Blob.
SuccessOrderWitness ==
    \E j \in DOMAIN jobs :
        /\ jobs[j].outcome = "blob"
        /\ Len(jobs[j].delivered) >= 2
        /\ jobs[j].delivered[1].ev
        /\ FinalCalls(j) # {}
        /\ Names(j) \cap fs = {}

\* C29 convert() touches the engine only when it is ready: a conversion starts
\* (a listener is registered, an engine operation issued, the cancellation
\* flag reset) only with the engine ready, and a call made while it is not
\* ready changes no conversion, no listener, no workspace entry and no hook
\* state.
NotReadyUntouched ==
    [][/\ (jobs' # jobs \/ handlers' # handlers \/ fs' # fs) =>
              (isReady /\ ffmpegInstance # 0)
       /\ (~refused /\ refused') =>
              /\ ~(isReady /\ ffmpegInstance # 0)
              /\ UNCHANGED <<jobs, handlers, fs, hookVars, loaderVars>>]_vars

\* A convert() call was turned away, and the engine is being acquired: the
\* engine object exists but is not ready, and nothing was started.
NotReadyUntouchedWitness ==
    /\ refused
    /\ ffmpegInstance # 0 /\ ~isReady
    /\ \E a \in DOMAIN attempts : InFlight(a)
    /\ jobs = <<>> /\ handlers = {} /\ fs = {}

\* Helpers of the pass liveness property.
InSnapshot(id) == \E k \in DOMAIN passes : id \in Range(passes[k].items)
Completed(id) == InQueue(queue, id) /\ ItemOf(queue, id).status = "completed"
InOrder ==
    \A k \in DOMAIN passes : \A a, b \in DOMAIN passes[k].items :
        (/\ a < b
         /\ InQueue(queue, passes[k].items[a])
         /\ Completed(passes[k].items[b])) => Completed(passes[k].items[a])

\* C25 Liveness of a pass, as claimed: every job that was queued when
\* startProcessing() was invoked eventually reaches completed, in enqueue
\* order.
PassLiveness ==
    /\ \A id \in 1..MaxItems : InSnapshot(id) ~> Completed(id)
    /\ []InOrder

\* C25 amended: every job that was queued when startProcessing() was invoked
\* eventually is completed or has left the queue, and the jobs of a pass that
\* stay in the queue complete in enqueue order.
PassLivenessAmended ==
    /\ \A id \in 1..MaxItems :
           InSnapshot(id) ~> (Completed(id) \/ ~InQueue(queue, id))
    /\ []InOrder

\* A pass over two jobs has returned with both completed and in the queue.
PassLivenessWitness ==
    /\ passes = <<>>
    /\ ~processingRef
    /\ toast = [kind |-> "converted", n |-> 2]
    /\ Len(handed) = 2
    /\ \A i \in DOMAIN handed : Completed(handed[i])

\* Helpers of the cooperative-cancellation property.
CancelResolvesNothing ==
    \A h \in Hooks :
        (abortRef'[h] /\ ~abortRef[h]) =>
            \A j \in DOMAIN jobs : jobs'[j].pc = jobs[j].pc
                                   /\ jobs'[j].outcome = jobs[j].outcome
MovesOnReturnOnly ==
    \A k \in DOMAIN jobs :
        jobs'[k].pc # jobs[k].pc =>
            \/ WriteDone(k) \/ ExecDone(k) \/ ReadDone(k)
            \/ DeleteDone(k) \/ DeleteRejects(k)

\* C30 Cancellation is cooperative and there is no timeout: cancel() resolves
\* no conversion, a conversion moves on only in a step in which its pending
\* engine operation returns, and when every engine operation eventually
\* returns every conversion eventually resolves.
CooperativeCancel ==
    /\ [][CancelResolvesNothing /\ MovesOnReturnOnly]_vars
    /\ \A n \in 1..MaxJobs :
           (n \in DOMAIN jobs) ~> (n \in DOMAIN jobs /\ jobs[n].pc = "done")

\* cancel() has been called for a conversion whose engine command is still
\* pending: the conversion has not resolved.
CooperativeCancelWitness ==
    \E j \in DOMAIN jobs :
        /\ jobs[j].pc = "exec"
        /\ jobs[j].cancelAt >= 0
        /\ abortRef[jobs[j].hook]
        /\ jobs[j].outcome = "none"

\* C31: every value handed to onProgress lies in 0..100, whatever fraction the
\* engine reports, fractions below 0 and above 1 included.
ProgressInRange ==
    \A j \in DOMAIN jobs : \A i \in DOMAIN jobs[j].delivered :
        jobs[j].delivered[i].v >= 0 /\ jobs[j].delivered[i].v <= 100

\* Every settled deleteFile, rejected or resolved, takes cleanup to its next
\* entry or convert() to its return, recording no error.
DeleteMovesOn ==
    \A d \in DOMAIN jobs :
        (DeleteDone(d) \/ DeleteRejects(d)) =>
            /\ jobs'[d].pc = IF jobs[d].pc = "del1" THEN "del2" ELSE "done"
            /\ jobs'[d].delTried = jobs[d].delTried \cup {DelName(d)}
            /\ ~jobs'[d].threw
            /\ herror' = herror

\* C32 Delete errors are ignored: a rejected deleteFile leaves the other
\* entry's deletion attempted all the same and changes nothing of what
\* convert() returns: a conversion that read its output returns the Blob after
\* delivering 100, a cancelled one returns null, and neither records an error.
DeleteErrorsIgnored ==
    /\ [][DeleteMovesOn]_vars
    /\ [](\A j \in DOMAIN jobs :
            /\ jobs[j].pc = "del2" => InputName(jobs[j].file) \in jobs[j].delTried
            /\ (jobs[j].pc = "done" /\ (jobs[j].read \/ jobs[j].sawAbort)) =>
                   /\ jobs[j].delTried = Names(j)
                   /\ jobs[j].setErr = NoError
                   /\ ~jobs[j].threw
            /\ (jobs[j].pc = "done" /\ jobs[j].read) =>
                   /\ jobs[j].outcome = "blob"
                   /\ Len(jobs[j].delivered) > 0
                   /\ jobs[j].delivered[Len(jobs[j].delivered)].v = 100
            /\ (jobs[j].pc = "done" /\ jobs[j].sawAbort) => jobs[j].outcome = "null")

\* The first conversion returned its Blob although deleting its input entry
\* was rejected (the entry, which only it wrote, is still there after both
\* attempts), and the second, cancelled, returned null with its output entry
\* left behind the same way.
DeleteErrorsIgnoredWitness ==
    /\ Len(jobs) = 2
    /\ jobs[1].outcome = "blob"
    /\ jobs[1].delTried = Names(1)
    /\ InputName(jobs[1].file) \in fs
    /\ InputName(jobs[2].file) # InputName(jobs[1].file)
    /\ jobs[2].pc = "done" /\ jobs[2].sawAbort
    /\ jobs[2].delTried = Names(2)
    /\ jobs[2].setErr = NoError
    /\ OutputName \in fs

\* C33 A hook that shows state 'error' after one of its ensureLoaded() calls
\* resolved to false also holds the failure diagnostics, error text and debug
\* info, whether the call started the attempt or waited on it.
ErrorStateHasDiagnostics ==
    \A h \in Hooks :
        (/\ hstate[h] = "error"
         /\ \E c \in DOMAIN calls :
                calls[c].hook = h /\ calls[c].pc = "done" /\ ~calls[c].result)
            => herror[h] # NoError /\ hdebug[h] # NoError

\* C34 Enqueueing n files appends n jobs at the end of the queue, in the order
\* given, each with an identity no job of the queue has, status 'queued' and
\* progress 0, and leaves every job that was there as and where it was.
EnqueueFrame ==
    [][\A n \in Batches :
         AddFiles(n) =>
            /\ Len(queue') = Len(queue) + n
            /\ SubSeq(queue', 1, Len(queue)) = queue
            /\ \A i \in (Len(queue) + 1)..Len(queue') :
                  /\ queue'[i].status = "queued"
                  /\ queue'[i].progress = 0
                  /\ ~InQueue(queue, queue'[i].id)
                  /\ \A k \in (Len(queue) + 1)..(i - 1) : queue'[k].id < queue'[i].id
            /\ NoDuplicates(Ids(queue'))]_vars

\* Two files have just been enqueued behind a job that is converting or
\* completed.
EnqueueFrameWitness ==
    /\ toast = [kind |-> "added", n |-> 2]
    /\ Len(queue) = 3
    /\ queue[1].status \in {"converting", "completed"}
    /\ queue[2].status = "queued" /\ queue[3].status = "queued"

\* C35 Singleton consistency: whenever isReady is true the engine object and
\* the attempt's promise are both set, and once an ensureLoaded() call has
\* resolved to true the test convert() opens with passes, so that no convert()
\* call is refused from then on.
SingletonConsistent ==
    /\ isReady => (ffmpegInstance # 0 /\ loadPromise # 0)
    /\ (\E c \in DOMAIN calls : calls[c].pc = "done" /\ calls[c].result)
          => (EngineReady /\ \A h \in Hooks : ~ENABLED ConvertRefused(h))

\* An ensureLoaded() call resolved to true and a convert() call was accepted.
SingletonConsistentWitness ==
    /\ \E c \in DOMAIN calls : calls[c].pc = "done" /\ calls[c].result
    /\ jobs # <<>>
    /\ isReady /\ ffmpegInstance # 0 /\ loadPromise # 0

\* C36 A hook instance starts in the state that matches the singleton at the
\* moment it is created: 'ready' iff the engine is ready, 'loading' iff an
\* acquisition attempt is in flight, 'idle' otherwise.
MountMatchesSingleton ==
    [][\A h \in Hooks :
         Mount(h) =>
            /\ (hstate'[h] = "ready") <=> isReady
            /\ (hstate'[h] = "loading") <=> (\E a \in DOMAIN attempts : InFlight(a))
            /\ (hstate'[h] = "idle") <=>
                  (~isReady /\ ~\E a \in DOMAIN attempts : InFlight(a))]_vars

\* C37 The processing guard is always released: the flag is set exactly while
\* a pass is running, the step in which a pass returns clears it, a
\* startProcessing() call made with the flag clear and jobs queued begins a
\* pass, and a set flag is eventually cleared.
GuardReleased ==
    /\ [](processingRef <=> passes # <<>>)
    /\ [][/\ (passes # <<>> /\ passes' = <<>>) => ~processingRef'
          /\ (StartProcessing /\ ~processingRef /\ hasQueued) => Len(passes') = 1]_vars
    /\ processingRef ~> ~processingRef

\* A pass is running that began after an earlier pass had returned: jobs were
\* handed over before the running pass took its snapshot.
GuardReleasedWitness ==
    /\ passes # <<>>
    /\ processingRef
    /\ Len(handed) > passes[1].idx

\* C38 In the flag-guarded variant at most one FFmpeg.load is in flight at a
\* time, whatever the sequence of load() calls.
OneLoadInFlight ==
    Cardinality({i \in DOMAIN loads : loads[i].pc = "load"}) <= 1

====
